---- MODULE Spec2Model ----
(***************************************************************************)
(* OmniExtract Pro (src/App.tsx): upload queue, batch orchestrator         *)
(* (processAll), session result set, export history and counter.           *)
(*                                                                         *)
(* Strings that the code inspects character by character (OCR text,        *)
(* canonical numbers, CSV content, export file names) are sequences of     *)
(* one-character strings.  File names of uploaded images are opaque and    *)
(* stay TLA+ strings.                                                      *)
(***************************************************************************)
EXTENDS Integers, Sequences, FiniteSets

(***************************************************************************)
(* Bounds of the model.                                                    *)
(***************************************************************************)
\* Number of operator actions (a file selection, Start Scan, Clear All, an
\* export, a re-download) over the life of the page.  The answers of the
\* image encoder and of the OCR service are not counted.
MaxClicks == 6

\* The most images the operator selects in one file dialog, and the number of
\* selections, in the specification of the upload alone (SpecUpload).
MaxSelected == 25
MaxUploads == 2

\* The most separators written between the digits of one number, in the
\* specification of the scan of one text (SpecScan).
MaxSeparators == 2

(***************************************************************************)
(* Inputs: the files the operator can select and what the OCR service can  *)
(* answer.                                                                 *)
(***************************************************************************)
\* The images on the operator's disk, by file name; the operator uploads them
\* in this order, one or several at a time.
Images == <<"a.jpg", "b.jpg", "c.jpg">>

\* "9656501307"
TextBare == <<"9","6","5","6","5","0","1","3","0","7">>
\* "+91 9656-501307 7012345678"
TextTwo == <<"+","9","1"," ","9","6","5","6","-","5","0","1","3","0","7"," ",
             "7","0","1","2","3","4","5","6","7","8">>
OcrTexts == {TextBare, TextTwo}

(***************************************************************************)
(* src/utils/imageProcessing.ts: extractAndFormatNumbers                   *)
(***************************************************************************)
Digits == {"0","1","2","3","4","5","6","7","8","9"}

\* \d
IsDigit(c) == c \in Digits

\* [\s] in place of [\s-]: the hyphen left out.
IsSepBlank(c) == c \in {" ", "\t", "\n", "\r"}

\* [\s-]
IsSep(c) == c \in {" ", "\t", "\n", "\r", "-"}

\* [6789]
IsLead(c) == c \in {"6","7","8","9"}

\* ([\s-]?\d){k} from position q: the position after the match, 0 when it
\* fails.  A separator is never a digit, so the greedy optional separator has
\* a single way to match.
RECURSIVE RestEnd(_, _, _)
RestEnd(text, q, k) ==
  IF k = 0 THEN q
  ELSE IF q + 1 <= Len(text) /\ IsSep(text[q]) /\ IsDigit(text[q + 1])
         THEN RestEnd(text, q + 2, k - 1)
  ELSE IF q <= Len(text) /\ IsDigit(text[q])
         THEN RestEnd(text, q + 1, k - 1)
  ELSE 0

\* The capture group with one repetition less: [6789]([\s-]?\d){8}.
CoreEndShort(text, p) ==
  IF p <= Len(text) /\ IsLead(text[p]) THEN RestEnd(text, p + 1, 8) ELSE 0

\* The capture group [6789]([\s-]?\d){9} from position p.
CoreEnd(text, p) ==
  IF p <= Len(text) /\ IsLead(text[p]) THEN RestEnd(text, p + 1, 9) ELSE 0

\* Whether text holds the characters of lit from position p on.
HasAt(text, p, lit) ==
  /\ p + Len(lit) - 1 <= Len(text)
  /\ \A k \in 1..Len(lit) : text[p + k - 1] = lit[k]

NoMatch == [start |-> 0, end |-> 0]

\* (?:\+|0{0,2})91[\s-]? with the first alternative fixed to pre, then the
\* capture group.
PrefixedMatch(text, p, pre) ==
  IF ~HasAt(text, p, pre \o <<"9","1">>) THEN NoMatch
  ELSE LET q == p + Len(pre) + 2
           withSep == IF q <= Len(text) /\ IsSep(text[q])
                        THEN CoreEnd(text, q + 1) ELSE 0
           without == CoreEnd(text, q)
       IN IF withSep # 0 THEN [start |-> q + 1, end |-> withSep]
          ELSE IF without # 0 THEN [start |-> q, end |-> without]
          ELSE NoMatch

\* The alternatives of the optional prefix in the order the regex tries them:
\* "+", "00", "0", "" (each followed by 91), then no prefix at all.
PrefixOrder == << <<"+">>, <<"0","0">>, <<"0">>, <<>> >>

\* The match the regex finds when anchored at p: the capture's first position
\* and the position after the whole match.
MatchAt(text, p) ==
  LET hits == {k \in 1..Len(PrefixOrder) :
                 PrefixedMatch(text, p, PrefixOrder[k]).end # 0}
      bare == CoreEnd(text, p)
  IN IF hits # {}
       THEN PrefixedMatch(text, p,
                          PrefixOrder[CHOOSE k \in hits : \A j \in hits : k <= j])
     ELSE IF bare # 0 THEN [start |-> p, end |-> bare]
     ELSE NoMatch

\* replace(/\D/g, '')
RECURSIVE StripNonDigits(_)
StripNonDigits(s) ==
  IF s = <<>> THEN <<>>
  ELSE (IF IsDigit(Head(s)) THEN <<Head(s)>> ELSE <<>>) \o StripNonDigits(Tail(s))

\* text.matchAll(regex): the captures (match[1]) of the successive
\* non-overlapping matches, scanning from position p.
RECURSIVE MatchAll(_, _)
MatchAll(text, p) ==
  IF p > Len(text) THEN <<>>
  ELSE LET m == MatchAt(text, p)
       IN IF m.end = 0 THEN MatchAll(text, p + 1)
          ELSE <<SubSeq(text, m.start, m.end - 1)>> \o MatchAll(text, m.end)

\* Array.from(new Set(results)): first occurrences, in order.
RECURSIVE Unique(_)
Unique(s) ==
  IF s = <<>> THEN <<>>
  ELSE LET init == Unique(SubSeq(s, 1, Len(s) - 1))
           last == s[Len(s)]
       IN IF \E k \in 1..Len(init) : init[k] = last THEN init
          ELSE Append(init, last)

\* The loop over the matches: keep a capture that strips to 10 digits, as
\* "91" + digits.
RECURSIVE FormatMatches(_)
FormatMatches(captures) ==
  IF captures = <<>> THEN <<>>
  ELSE LET clean == StripNonDigits(Head(captures))
       IN (IF Len(clean) = 10 THEN << <<"9","1">> \o clean >> ELSE <<>>)
          \o FormatMatches(Tail(captures))

extractAndFormatNumbers(text) == Unique(FormatMatches(MatchAll(text, 1)))


(***************************************************************************)
(* src/utils/csv.ts: generateCSV, and the template string of the file name *)
(***************************************************************************)
DigitChars == <<"0","1","2","3","4","5","6","7","8","9">>

\* Number.prototype.toString() of a non-negative integer.
RECURSIVE toString(_)
toString(n) ==
  IF n < 10 THEN <<DigitChars[n + 1]>>
  ELSE toString(n \div 10) \o <<DigitChars[(n % 10) + 1]>>

\* 'Number,Phone Number\n'
CsvHeader == <<"N","u","m","b","e","r",",","P","h","o","n","e"," ",
               "N","u","m","b","e","r","\n">>

\* numbers.forEach((num, index) => csv += `${index + 1},${num}\n`) from row k.
RECURSIVE CsvRows(_, _)
CsvRows(numbers, k) ==
  IF k > Len(numbers) THEN <<>>
  ELSE toString(k) \o <<",">> \o numbers[k] \o <<"\n">> \o CsvRows(numbers, k + 1)

\* The generateCSV of another file of the repository: a single column under
\* 'Phone Number', the numbers joined by '\n', and '' for an empty list.
RECURSIVE JoinLines(_)
JoinLines(numbers) ==
  IF Len(numbers) = 1 THEN numbers[1]
  ELSE numbers[1] \o <<"\n">> \o JoinLines(Tail(numbers))

generateCSVSingleColumn(numbers) ==
  IF numbers = <<>> THEN <<>>
  ELSE <<"P","h","o","n","e"," ","N","u","m","b","e","r","\n">> \o JoinLines(numbers)

generateCSV(numbers) == CsvHeader \o CsvRows(numbers, 1)

\* The file name built from downloadCount instead of nextCount.
ExportFilenameStale(nextCount) == toString(nextCount - 1) \o <<".","c","s","v">>

\* `${nextCount}.csv`
ExportFilename(nextCount) == toString(nextCount) \o <<".","c","s","v">>

(***************************************************************************)
(* src/App.tsx: the component state                                        *)
(***************************************************************************)
VARIABLES
  files,             \* useState<ProcessingFile[]>: the upload queue
  isProcessing,      \* useState(false)
  extractedNumbers,  \* useState<ExtractedNumber[]>: the session result set
  history,           \* useState<DownloadHistory[]>
  downloadCount,     \* useState(0)
  localStorage,      \* the two keys the effects write
  saved,             \* the file the last downloadCSV call handed to the browser
  passes,            \* the processAll calls in flight
  nextId,            \* ids handed out so far (Math.random ids are taken fresh)
  returned,          \* history: the processAll call that returned in the last
                     \* step, as it was at its return; empty otherwise
  clicks,            \* history: the operator actions so far
  session            \* history: the number of times the page has been loaded

vars == <<files, isProcessing, extractedNumbers, history, downloadCount,
          localStorage, saved, passes, nextId, returned, clicks, session>>

\* slice(0, 20) of handleFileUpload
UploadLimit == 20

\* slice(0, 5) of handleDownload
HistoryCapacity == 5

\* Slots for the processAll calls in flight: each was started by one operator
\* action.
PassIds == 1..MaxClicks

\* A processAll call: its closure (updatedFiles, newExtracted and the
\* extractedNumbers of the render it was created in), the loop index i, the
\* await it is suspended at (pc), the inlineData.data of the request it has
\* outstanding at the OCR service (empty when it has none) and, as history,
\* the outcome of each item it has finished (log).
IdlePass ==
  [pc |-> "idle", updatedFiles |-> <<>>, i |-> 0, newExtracted |-> <<>>,
   extractedNumbers |-> <<>>, inlineData |-> <<>>, log |-> <<>>]

InFlight(p) == passes[p].pc \in {"preprocess", "ocr"}

\* JSON.stringify of a string: the text between double quotes, with the
\* quote, the backslash and the control characters escaped.
RECURSIVE Escape(_)
Escape(s) ==
  IF s = <<>> THEN <<>>
  ELSE (CASE Head(s) = "\"" -> <<"\\", "\"">>
          [] Head(s) = "\\" -> <<"\\", "\\">>
          [] Head(s) = "\n" -> <<"\\", "n">>
          [] Head(s) = "\r" -> <<"\\", "r">>
          [] Head(s) = "\t" -> <<"\\", "t">>
          [] OTHER -> <<Head(s)>>) \o Escape(Tail(s))

Quote(s) == <<"\"">> \o Escape(s) \o <<"\"">>

\* JSON.parse of the inside of a string literal.
RECURSIVE Unescape(_)
Unescape(t) ==
  IF t = <<>> THEN <<>>
  ELSE IF Head(t) = "\\" /\ Len(t) >= 2
         THEN (CASE t[2] = "n" -> <<"\n">>
                 [] t[2] = "r" -> <<"\r">>
                 [] t[2] = "t" -> <<"\t">>
                 [] OTHER -> <<t[2]>>) \o Unescape(SubSeq(t, 3, Len(t)))
  ELSE <<Head(t)>> \o Unescape(Tail(t))

Unquote(t) == Unescape(SubSeq(t, 2, Len(t) - 1))

\* The value of a digit character.
DigitValue(c) == CHOOSE d \in 0..9 : DigitChars[d + 1] = c

\* The number a run of decimal digits denotes, after acc.
RECURSIVE DecimalValue(_, _)
DecimalValue(s, acc) ==
  IF s = <<>> \/ ~(Head(s) \in Digits) THEN acc
  ELSE DecimalValue(Tail(s), 10 * acc + DigitValue(Head(s)))

NaN == "NaN"

\* parseInt(s, 10) of a text without sign or leading blanks: the leading
\* digits, NaN when there is none.
parseInt(s) ==
  IF s # <<>> /\ Head(s) \in Digits THEN DecimalValue(s, 0) ELSE NaN

\* JSON.stringify(history): the array, each record with its strings as string
\* literals and its number as decimal text.
JSONStringify(h) ==
  [k \in 1..Len(h) |->
     [filename |-> Quote(h[k].filename), count |-> toString(h[k].count),
      data |-> Quote(h[k].data)]]

\* JSON.parse of what JSONStringify wrote.
JSONParse(t) ==
  [k \in 1..Len(t) |->
     [filename |-> Unquote(t[k].filename), count |-> DecimalValue(t[k].count, 0),
      data |-> Unquote(t[k].data)]]

\* The two save effects, run after a render that changed history or
\* downloadCount.
SaveEffects(h, count) ==
  [omniextract_history |-> JSONStringify(h), omniextract_count |-> toString(count)]

(***************************************************************************)
(* src/utils/imageProcessing.ts: preprocessImage, and                      *)
(* src/services/geminiService.ts: performOCR                               *)
(***************************************************************************)
\* "data:image/jpeg;base64,"
DataUriPrefix ==
  <<"d","a","t","a",":","i","m","a","g","e","/","j","p","e","g",";",
    "b","a","s","e","6","4",",">>

\* The base64 text of a JPEG file, cut after its first bytes (the marker
\* FF D8 FF E0 and the length of the JFIF segment), which every JPEG shares.
JpegBase64 == <<"/","9","j","/","4","A","A","Q">>

\* canvas.toDataURL('image/jpeg', 0.9): what preprocessImage resolves with.
toDataURL(file) == DataUriPrefix \o JpegBase64

\* inlineData: { mimeType: 'image/jpeg', data: base64Image }: performOCR
\* sends its argument as it is.
inlineDataOf(base64Image) == base64Image

NoFile == [filename |-> <<>>, content |-> <<>>]

Init ==
  /\ files = <<>>
  /\ isProcessing = FALSE
  /\ extractedNumbers = <<>>
  /\ history = <<>>
  /\ downloadCount = 0
  /\ localStorage = SaveEffects(<<>>, 0)
  /\ saved = NoFile
  /\ passes = [p \in PassIds |-> IdlePass]
  /\ nextId = 0
  /\ returned = <<>>
  /\ clicks = 0
  /\ session = 1

\* One more operator action, while the operator has some left.
Click == clicks < MaxClicks /\ clicks' = clicks + 1

(***************************************************************************)
(* handleFileUpload                                                        *)
(***************************************************************************)
Min(a, b) == IF a < b THEN a ELSE b

\* limitedFiles.map(f => ({id, file, status: 'pending', progress: 0})); the
\* k-th new item takes the id firstId + k.  rawText and error are absent (an
\* empty sequence), and hold one value once set.
NewFiles(limitedFiles, firstId) ==
  [k \in 1..Len(limitedFiles) |->
     [id |-> firstId + k, name |-> limitedFiles[k], status |-> "pending",
      progress |-> 0, rawText |-> <<>>, error |-> <<>>]]

\* What the file dialog returns when the operator picks the next n images.
Selection(n) == [k \in 1..n |-> Images[nextId + k]]

\* slice(0, 20) not applied: the whole selection is taken.
LimitedFilesAll(selectedFiles) == selectedFiles

\* selectedFiles.slice(0, 20)
LimitedFiles(selectedFiles) ==
  SubSeq(selectedFiles, 1, Min(Len(selectedFiles), UploadLimit))

\* The input is disabled while isProcessing (line 207).
handleFileUpload(selectedFiles) ==
  LET limitedFiles == LimitedFiles(selectedFiles)
  IN /\ Click
     /\ ~isProcessing
     /\ Len(selectedFiles) > 0
     /\ files' = files \o NewFiles(limitedFiles, nextId)
     /\ nextId' = nextId + Len(limitedFiles)
     /\ returned' = <<>>
     /\ UNCHANGED <<isProcessing, extractedNumbers, history, downloadCount,
                    localStorage, saved, passes, session>>

(***************************************************************************)
(* processAll                                                              *)
(***************************************************************************)
\* The five functional updates setFiles(prev => prev.map(f => f.id ===
\* current.id ? {...f, ...} : f)) of lines 79, 83, 87, 103 and 105.
MarkProcessing(prev, current) ==
  [k \in 1..Len(prev) |->
     IF prev[k].id = current.id
       THEN [prev[k] EXCEPT !.status = "processing", !.progress = 20]
       ELSE prev[k]]

MarkEncoded(prev, current) ==
  [k \in 1..Len(prev) |->
     IF prev[k].id = current.id THEN [prev[k] EXCEPT !.progress = 50] ELSE prev[k]]

MarkText(prev, current, text) ==
  [k \in 1..Len(prev) |->
     IF prev[k].id = current.id
       THEN [prev[k] EXCEPT !.progress = 80, !.rawText = <<text>>]
       ELSE prev[k]]

MarkCompleted(prev, current) ==
  [k \in 1..Len(prev) |->
     IF prev[k].id = current.id
       THEN [prev[k] EXCEPT !.status = "completed", !.progress = 100]
       ELSE prev[k]]

FailedToProcess == "Failed to process image"

MarkError(prev, current) ==
  [k \in 1..Len(prev) |->
     IF prev[k].id = current.id
       THEN [prev[k] EXCEPT !.status = "error", !.error = <<FailedToProcess>>]
       ELSE prev[k]]

\* The loop without the test of line 76.
SkippedNever(current) == FALSE

\* The test of line 76 taken to cover every concluded item.
SkippedOnceConcluded(current) == current.status \in {"completed", "error"}

\* if (current.status === 'completed') continue;
Skipped(current) == current.status = "completed"

\* The first index from `from` on that the loop does not skip; 0 when the
\* loop runs off the end of updatedFiles.
NextIndex(updatedFiles, from) ==
  LET todo == {j \in from..Len(updatedFiles) : ~Skipped(updatedFiles[j])}
  IN IF todo = {} THEN 0 ELSE CHOOSE j \in todo : \A k \in todo : j <= k

\* A state the call works on: the component state its updaters apply to, and
\* its own closure.
Closure(p) ==
  [files |-> files, extractedNumbers |-> extractedNumbers,
   isProcessing |-> isProcessing, pass |-> passes[p]]

\* Lines 109-110, after the loop: merge and release.
Finish(st) ==
  [st EXCEPT !.extractedNumbers = @ \o st.pass.newExtracted,
             !.isProcessing = FALSE,
             !.pass.pc = "returned",
             !.pass.i = Len(st.pass.updatedFiles) + 1]

\* Loop with the update of line 79 applied to the call's own array instead of
\* to prev: setFiles(updatedFiles.map(...)).
LoopOverSnapshot(st, from) ==
  LET j == NextIndex(st.pass.updatedFiles, from)
  IN IF j = 0 THEN Finish(st)
     ELSE [st EXCEPT !.files = MarkProcessing(st.pass.updatedFiles,
                                              st.pass.updatedFiles[j]),
                     !.pass.i = j,
                     !.pass.pc = "preprocess"]

\* for (let i = from; ...): run to the next await (line 82, after the update
\* of line 79), or through the end of the function.
Loop(st, from) ==
  LET j == NextIndex(st.pass.updatedFiles, from)
  IN IF j = 0 THEN Finish(st)
     ELSE [st EXCEPT !.files = MarkProcessing(@, st.pass.updatedFiles[j]),
                     !.pass.i = j,
                     !.pass.pc = "preprocess"]

\* catch (err) { setFiles(... 'error' ...) }, then the next iteration.
Catch(st) ==
  LET current == st.pass.updatedFiles[st.pass.i]
  IN Loop([st EXCEPT
             !.files = MarkError(@, current),
             !.pass.inlineData = <<>>,
             !.pass.log = Append(@, [id |-> current.id, name |-> current.name,
                                     outcome |-> "error", numbers |-> <<>>])],
          st.pass.i + 1)

\* PushNew without the newExtracted.find test: only the result set of the
\* render is consulted.
RECURSIVE PushNewUnlessKnown(_, _, _, _)
PushNewUnlessKnown(newExtracted, known, numbers, current) ==
  IF numbers = <<>> THEN newExtracted
  ELSE LET num == Head(numbers)
           found == \E k \in 1..Len(known) : known[k].formatted = num
       IN PushNewUnlessKnown(
            IF found THEN newExtracted
            ELSE Append(newExtracted,
                        [original |-> num, formatted |-> num,
                         sourceImage |-> current.name, item |-> current.id]),
            known, Tail(numbers), current)

\* numbers.forEach(num => { if (!newExtracted.find(...) &&
\* !extractedNumbers.find(...)) newExtracted.push({...}) }).  The field item
\* is not in the code: it records the id of the queue item an entry came from.
RECURSIVE PushNew(_, _, _, _)
PushNew(newExtracted, known, numbers, current) ==
  IF numbers = <<>> THEN newExtracted
  ELSE LET num == Head(numbers)
           found == \/ \E k \in 1..Len(newExtracted) : newExtracted[k].formatted = num
                    \/ \E k \in 1..Len(known) : known[k].formatted = num
       IN PushNew(IF found THEN newExtracted
                  ELSE Append(newExtracted,
                              [original |-> num, formatted |-> num,
                               sourceImage |-> current.name, item |-> current.id]),
                  known, Tail(numbers), current)

\* Lines 87-103, once performOCR has resolved with text, then the next
\* iteration.
Extracted(st, text) ==
  LET current == st.pass.updatedFiles[st.pass.i]
      numbers == extractAndFormatNumbers(text)
  IN Loop([st EXCEPT
             !.files = MarkCompleted(MarkText(@, current, text), current),
             !.pass.inlineData = <<>>,
             !.pass.newExtracted =
                PushNew(@, st.pass.extractedNumbers, numbers, current),
             !.pass.log = Append(@, [id |-> current.id, name |-> current.name,
                                     outcome |-> "completed", numbers |-> numbers])],
          st.pass.i + 1)

\* The component state and the call after a step of call p: a call that has
\* run through its last line leaves its slot.
Apply(p, st) ==
  /\ files' = st.files
  /\ extractedNumbers' = st.extractedNumbers
  /\ isProcessing' = st.isProcessing
  /\ passes' = [passes EXCEPT
                  ![p] = IF st.pass.pc \in {"preprocess", "ocr"} THEN st.pass
                         ELSE IdlePass]
  /\ returned' = IF st.pass.pc \in {"preprocess", "ocr"} THEN <<>> ELSE <<st.pass>>
  /\ UNCHANGED <<history, downloadCount, localStorage, saved, nextId, session>>

\* The call takes the lowest slot that holds no call in flight.
FreeSlot(p) ==
  /\ ~InFlight(p)
  /\ \A q \in PassIds : q < p => InFlight(q)

\* Start Scan: lines 68-79 (or through line 110 when every item is skipped).
processAll(p) ==
  /\ Click
  /\ FreeSlot(p)
  /\ Len(files) # 0
  /\ ~isProcessing
  /\ Apply(p, Loop([files |-> files, extractedNumbers |-> extractedNumbers,
                    isProcessing |-> TRUE,
                    pass |-> [IdlePass EXCEPT !.updatedFiles = files,
                                              !.extractedNumbers = extractedNumbers]],
                   1))

\* preprocessImage resolves: line 83, then performOCR is called.
preprocessResolved(p) ==
  /\ UNCHANGED clicks
  /\ passes[p].pc = "preprocess"
  /\ LET st == Closure(p)
         current == st.pass.updatedFiles[st.pass.i]
         base64 == toDataURL(current.name)
     IN Apply(p, [st EXCEPT !.files = MarkEncoded(@, current),
                            !.pass.inlineData = inlineDataOf(base64),
                            !.pass.pc = "ocr"])

\* preprocessImage rejects (img.onerror, no 2d context).
preprocessRejected(p) ==
  /\ UNCHANGED clicks
  /\ passes[p].pc = "preprocess"
  /\ Apply(p, Catch(Closure(p)))

\* performOCR resolves with { text }.
ocrResolved(p, text) ==
  /\ UNCHANGED clicks
  /\ passes[p].pc = "ocr"
  /\ Apply(p, Extracted(Closure(p), text))

\* performOCR rejects.
ocrRejected(p) ==
  /\ UNCHANGED clicks
  /\ passes[p].pc = "ocr"
  /\ Apply(p, Catch(Closure(p)))

(***************************************************************************)
(* handleDownload, the re-download button of the history card, clearAll    *)
(***************************************************************************)
Formatted(numbers) == [k \in 1..Len(numbers) |-> numbers[k].formatted]

\* [...prev, historyItem].slice(0, 5): the new record last.
PushHistoryLast(prev, historyItem) ==
  SubSeq(prev \o <<historyItem>>, 1, Min(Len(prev) + 1, HistoryCapacity))

\* [historyItem, ...prev].slice(0, 5)
PushHistory(prev, historyItem) ==
  SubSeq(<<historyItem>> \o prev, 1, Min(Len(prev) + 1, HistoryCapacity))

handleDownload ==
  /\ Click
  /\ Len(extractedNumbers) # 0
  /\ LET nextCount == downloadCount + 1
         filename == ExportFilename(nextCount)
         csvContent == generateCSV(Formatted(extractedNumbers))
         historyItem == [filename |-> filename, count |-> Len(extractedNumbers),
                         data |-> csvContent]
     IN /\ saved' = [filename |-> filename, content |-> csvContent]
        /\ history' = PushHistory(history, historyItem)
        /\ downloadCount' = nextCount
        /\ localStorage' = SaveEffects(history', downloadCount')
  /\ returned' = <<>>
  /\ UNCHANGED <<files, isProcessing, extractedNumbers, passes, nextId, session>>

\* The re-download regenerating the file from the live result set under the
\* record's name.
redownloadLive(k) ==
  /\ Click
  /\ k \in 1..Len(history)
  /\ saved' = [filename |-> history[k].filename,
               content |-> generateCSV(Formatted(extractedNumbers))]
  /\ returned' = <<>>
  /\ UNCHANGED <<files, isProcessing, extractedNumbers, history, downloadCount,
                 localStorage, passes, nextId, session>>

\* onClick={() => downloadCSV(item.data, item.filename)}
redownload(k) ==
  /\ Click
  /\ k \in 1..Len(history)
  /\ saved' = [filename |-> history[k].filename, content |-> history[k].data]
  /\ returned' = <<>>
  /\ UNCHANGED <<files, isProcessing, extractedNumbers, history, downloadCount,
                 localStorage, passes, nextId, session>>

\* Clear All taken to reset the whole component state, exports included.
clearAllWithExports ==
  /\ Click
  /\ files' = <<>>
  /\ extractedNumbers' = <<>>
  /\ isProcessing' = FALSE
  /\ history' = <<>>
  /\ downloadCount' = 0
  /\ localStorage' = SaveEffects(<<>>, 0)
  /\ returned' = <<>>
  /\ UNCHANGED <<saved, passes, nextId, session>>

clearAll ==
  /\ Click
  /\ files' = <<>>
  /\ extractedNumbers' = <<>>
  /\ isProcessing' = FALSE
  /\ returned' = <<>>
  /\ UNCHANGED <<history, downloadCount, localStorage, saved, passes, nextId,
                 session>>

(***************************************************************************)
(* A reload of the page: the component is mounted anew                     *)
(***************************************************************************)
\* The load effect without its call of setDownloadCount.
LoadEffectNoCount(storage) ==
  [history |-> JSONParse(storage.omniextract_history), downloadCount |-> 0]

\* The load effect (lines 30-36): what it hands to setHistory and
\* setDownloadCount.  Both keys hold a text since the first mount, and the
\* text of an array is never empty.
LoadEffect(storage) ==
  [history |-> JSONParse(storage.omniextract_history),
   downloadCount |-> IF storage.omniextract_count # <<>>
                       THEN parseInt(storage.omniextract_count) ELSE 0]

\* The load effect without its second half (lines 34-35).
StartupHistoryOnly(storage) ==
  [history |-> LoadEffect(storage).history, downloadCount |-> 0,
   localStorage |-> SaveEffects(LoadEffect(storage).history, 0)]

\* The mount: the effects run in order on the first render (the load effect
\* reads the keys, then the save effects write the initial state [] and 0),
\* and the render that follows the two setState calls runs the save effects
\* again with the loaded state.
Startup(storage) ==
  LET loaded == LoadEffect(storage)
      first == SaveEffects(<<>>, 0)
      second == SaveEffects(loaded.history, loaded.downloadCount)
  IN [history |-> loaded.history, downloadCount |-> loaded.downloadCount,
      localStorage |-> [first EXCEPT
                          !.omniextract_history = second.omniextract_history,
                          !.omniextract_count = second.omniextract_count]]

\* The operator reloads the page: the component state is the initial one, the
\* calls in flight are gone with the page, and localStorage is what is left.
Reload ==
  /\ Click
  /\ LET mounted == Startup(localStorage)
     IN /\ history' = mounted.history
        /\ downloadCount' = mounted.downloadCount
        /\ localStorage' = mounted.localStorage
  /\ files' = <<>>
  /\ isProcessing' = FALSE
  /\ extractedNumbers' = <<>>
  /\ passes' = [p \in PassIds |-> IdlePass]
  /\ returned' = <<>>
  /\ session' = session + 1
  /\ UNCHANGED <<saved, nextId>>

Next ==
  \/ \E n \in 1..(Len(Images) - nextId) : handleFileUpload(Selection(n))
  \/ \E p \in PassIds : processAll(p)
  \/ \E p \in PassIds : preprocessResolved(p)
  \/ \E p \in PassIds : preprocessRejected(p)
  \/ \E p \in PassIds, text \in OcrTexts : ocrResolved(p, text)
  \/ \E p \in PassIds : ocrRejected(p)
  \/ handleDownload
  \/ \E k \in 1..HistoryCapacity : redownload(k)
  \/ clearAll

Spec == Init /\ [][Next]_vars

(***************************************************************************)
(* Exports over several sessions: the page once a first pass over one      *)
(* image has completed, the operator's actions counted from there, and     *)
(* reloads of the page.                                                    *)
(***************************************************************************)
\* The queue item of the first image, completed with rawText text.
Scanned(text) ==
  MarkCompleted(MarkText(MarkEncoded(MarkProcessing(NewFiles(<<Images[1]>>, 0),
                                                    [id |-> 1]),
                                     [id |-> 1]),
                         [id |-> 1], text),
                [id |-> 1])

ExportInit ==
  \E text \in OcrTexts :
    /\ files = Scanned(text)
    /\ isProcessing = FALSE
    /\ extractedNumbers = PushNew(<<>>, <<>>, extractAndFormatNumbers(text), files[1])
    /\ history = <<>>
    /\ downloadCount = 0
    /\ localStorage = SaveEffects(<<>>, 0)
    /\ saved = NoFile
    /\ passes = [p \in PassIds |-> IdlePass]
    /\ nextId = 1
    /\ returned = <<>>
    /\ clicks = 0
    /\ session = 1

ExportNext == Next \/ Reload

SpecExport == ExportInit /\ [][ExportNext]_vars

(***************************************************************************)
(* The scan of one text: the page with one image uploaded and its pass     *)
(* waiting for performOCR, which answers with one of the texts below.      *)
(***************************************************************************)
\* Valid numbers: 9656501307, 7012345678, 9187654321.
ValidNumbers ==
  {TextBare,
   <<"7","0","1","2","3","4","5","6","7","8">>,
   <<"9","1","8","7","6","5","4","3","2","1">>}

\* What stands before a number: nothing, "+91 " or "0".
Prefixes == {<<>>, <<"+","9","1"," ">>, <<"0">>}

\* The digits written with at most budget single separators (a space or a
\* hyphen) between them.
RECURSIVE Spaced(_, _)
Spaced(digits, budget) ==
  IF Len(digits) = 1 THEN {digits}
  ELSE {<<Head(digits)>> \o rest : rest \in Spaced(Tail(digits), budget)}
       \cup (IF budget = 0 THEN {}
             ELSE {<<Head(digits), sep>> \o rest :
                     sep \in {" ", "-"}, rest \in Spaced(Tail(digits), budget - 1)})

\* A number alone in the text, in one of its written forms.
WrittenForms ==
  [n \in ValidNumbers |->
     {pre \o body : pre \in Prefixes, body \in Spaced(n, MaxSeparators)}]

\* dddd dd dddd, as in "9656 50 1307".
Grouped(n) == SubSeq(n, 1, 4) \o <<" ">> \o SubSeq(n, 5, 6) \o <<" ">> \o SubSeq(n, 7, 10)

\* The forms of a number used where it is written several times.
FewForms == [n \in ValidNumbers |-> {pre \o body : pre \in Prefixes, body \in {n, Grouped(n)}}]

\* What stands between two numbers of a list.
Between == {<<" ">>, <<"\n">>, <<",", " ">>}

\* The same number written twice or three times.
RepeatTexts ==
  [n \in ValidNumbers |->
     {f \o sep \o g : f \in FewForms[n], g \in FewForms[n], sep \in Between}
     \cup {f \o sep \o f \o sep \o f : f \in FewForms[n], sep \in Between}]

\* Runs of 10 digits that begin with 0-5: 1234567890, 5987654321.
LowClusters ==
  {<<"1","2","3","4","5","6","7","8","9","0">>,
   <<"5","9","8","7","6","5","4","3","2","1">>}

\* Such a run alone, followed by other digits, and on a line of its own
\* after or before a valid number.
ClusterTexts ==
  LowClusters
  \cup {c \o <<" ">> \o t : c \in LowClusters, t \in {<<"7">>, <<"1","2","3","4","5">>}}
  \cup {n \o <<"\n">> \o c : c \in LowClusters, n \in ValidNumbers}
  \cup {c \o <<"\n">> \o n : c \in LowClusters, n \in ValidNumbers}

\* Numbers written with two separators in a row, and runs of 9 and of 11
\* digits: "9656  501307", "9656--501307", "965650130", "9656 50 130",
\* "96565013071".
Malformed ==
  {<<"9","6","5","6"," "," ","5","0","1","3","0","7">>,
   <<"9","6","5","6","-","-","5","0","1","3","0","7">>,
   <<"9","6","5","6","5","0","1","3","0">>,
   <<"9","6","5","6"," ","5","0"," ","1","3","0">>,
   <<"9","6","5","6","5","0","1","3","0","7","1">>}

ScanTexts ==
  UNION {WrittenForms[n] \cup RepeatTexts[n] : n \in ValidNumbers}
  \cup ClusterTexts \cup Malformed

\* lines 79 and 83 applied to the uploaded image.
Encoded == MarkEncoded(MarkProcessing(NewFiles(<<Images[1]>>, 0), [id |-> 1]), [id |-> 1])

ScanInit ==
  /\ files = Encoded
  /\ isProcessing = TRUE
  /\ extractedNumbers = <<>>
  /\ history = <<>>
  /\ downloadCount = 0
  /\ localStorage = SaveEffects(<<>>, 0)
  /\ saved = NoFile
  /\ passes = [p \in PassIds |->
                 IF p = 1
                   THEN [IdlePass EXCEPT !.pc = "ocr", !.i = 1,
                                         !.inlineData = inlineDataOf(toDataURL(Images[1])),
                                         !.updatedFiles = NewFiles(<<Images[1]>>, 0)]
                   ELSE IdlePass]
  /\ nextId = 1
  /\ returned = <<>>
  /\ clicks = 2
  /\ session = 1

ScanNext == \E text \in ScanTexts : ocrResolved(1, text)

SpecScan == ScanInit /\ [][ScanNext]_vars

(***************************************************************************)
(* The upload alone: selections of up to MaxSelected images of a folder.   *)
(***************************************************************************)
\* The first n images of the folder, "img01.jpg", "img02.jpg", ..., as the
\* file dialog returns them.
CameraRoll(n) ==
  [k \in 1..n |-> "img" \o DigitChars[(k \div 10) + 1] \o DigitChars[(k % 10) + 1]
                    \o ".jpg"]

UploadNext ==
  \E n \in 0..MaxSelected : clicks < MaxUploads /\ handleFileUpload(CameraRoll(n))

SpecUpload == Init /\ [][UploadNext]_vars

(***************************************************************************)
(* Session result set                                                      *)
(***************************************************************************)
\* C1: in every reachable state no two entries of extractedNumbers have the
\* same canonical form (formatted).
C1_PairwiseDistinct ==
  \A j, k \in 1..Len(extractedNumbers) :
    j # k => extractedNumbers[j].formatted # extractedNumbers[k].formatted


(***************************************************************************)
(* Batch orchestrator                                                      *)
(***************************************************************************)
Range(seq) == {seq[k] : k \in 1..Len(seq)}

IdsOf(seq) == {seq[k].id : k \in 1..Len(seq)}

\* The processAll calls a state shows: those in flight and the one that has
\* just returned.
Calls == {passes[p] : p \in {q \in PassIds : InFlight(q)}} \cup Range(returned)

\* The numbers call c has matched in the items it completed.
Matched(c) ==
  UNION {Range(c.log[k].numbers) : k \in {j \in 1..Len(c.log) : c.log[j].outcome = "completed"}}

\* The first item, in queue order, in which call c matched num.
FirstMatch(c, num) ==
  LET hits == {k \in 1..Len(c.log) : num \in Range(c.log[k].numbers)}
  IN c.log[CHOOSE k \in hits : \A j \in hits : k <= j]

KnownTo(c) == {c.extractedNumbers[k].formatted : k \in 1..Len(c.extractedNumbers)}

EntriesFor(entries, num) == {k \in 1..Len(entries) : entries[k].formatted = num}

\* C2: a number matched in one or several items of a pass, and new to the
\* result set the pass started from, has exactly one entry among the entries the
\* pass adds, with the file name of the first item that matched it as
\* sourceImage; what the pass adds to the result set at its return is exactly
\* these entries.
C2_OnceFromFirstSource ==
  /\ \A c \in Calls : \A num \in Matched(c) \ KnownTo(c) :
       /\ Cardinality(EntriesFor(c.newExtracted, num)) = 1
       /\ \A k \in EntriesFor(c.newExtracted, num) :
            c.newExtracted[k].sourceImage = FirstMatch(c, num).name
  /\ \A c \in Range(returned) :
       /\ Len(extractedNumbers) >= Len(c.newExtracted)
       /\ SubSeq(extractedNumbers, Len(extractedNumbers) - Len(c.newExtracted) + 1,
                 Len(extractedNumbers)) = c.newExtracted

\* A pass has returned in which items 1 and 3 both matched a number, entered
\* with item 1's file name.
C2_Witness ==
  \E c \in Range(returned) :
    /\ Len(c.log) = 3
    /\ \E num \in Range(c.log[1].numbers) \cap Range(c.log[3].numbers) :
         /\ num \notin KnownTo(c)
         /\ c.log[1].name # c.log[3].name
         /\ \E k \in 1..Len(extractedNumbers) :
              /\ extractedNumbers[k].formatted = num
              /\ extractedNumbers[k].sourceImage = c.log[1].name

\* The items of its snapshot a call does not skip.
Todo(c) == {k \in 1..Len(c.updatedFiles) : c.updatedFiles[k].status # "completed"}

LiveItems(id) == {k \in 1..Len(files) : files[k].id = id}

ResultSet == {extractedNumbers[k].formatted : k \in 1..Len(extractedNumbers)}

\* C3: when a pass returns, it has returned normally and has handled every
\* item it did not skip; an item whose encode or OCR call threw is in status
\* error with a reason, an item whose calls succeeded is completed and its
\* numbers are in the result set (as far as the items are still in the queue).
C3_FailureIsolated ==
  \A c \in Range(returned) :
    /\ c.pc = "returned"
    /\ {c.log[k].id : k \in 1..Len(c.log)} = {c.updatedFiles[k].id : k \in Todo(c)}
    /\ \A k \in 1..Len(c.log) : \A j \in LiveItems(c.log[k].id) :
         IF c.log[k].outcome = "error"
           THEN files[j].status = "error" /\ files[j].error = <<FailedToProcess>>
           ELSE /\ files[j].status = "completed"
                /\ Range(c.log[k].numbers) \subseteq ResultSet

\* C4: every entry of the result set, and every entry a call is about to add,
\* comes from an item whose success path ran to its end in that call, and no
\* queue item in a status other than completed is the source of an entry.
C4_NoNumbersFromFailedItem ==
  /\ \A c \in Calls : \A k \in 1..Len(c.newExtracted) :
       \E j \in 1..Len(c.log) :
         /\ c.log[j].id = c.newExtracted[k].item
         /\ c.log[j].outcome = "completed"
         /\ c.newExtracted[k].formatted \in Range(c.log[j].numbers)
  /\ \A k \in 1..Len(extractedNumbers) :
       \A j \in LiveItems(extractedNumbers[k].item) : files[j].status = "completed"

\* The call of slot p as its step leaves it: still in flight, or just returned.
After(p) == IF passes'[p].pc \in {"preprocess", "ocr"} THEN passes'[p] ELSE returned'[1]

\* Call p takes a step (an answer of the encoder or of the OCR service).
Steps(p) == InFlight(p) /\ passes'[p] # passes[p]

\* C9, second half: when a pass returns, every queue item that was in its
\* snapshot and not completed there is completed or in error.
C9_AllConcluded ==
  \A c \in Range(returned) : \A k \in Todo(c) :
    \A j \in LiveItems(c.updatedFiles[k].id) : files[j].status \in {"completed", "error"}

\* C7: every status change of a queue item is pending -> processing,
\* processing -> completed or processing -> error.
C7_ForwardOnly ==
  [][\A j \in 1..Len(files) : \A k \in 1..Len(files') :
       (files[j].id = files'[k].id /\ files[j].status # files'[k].status)
         => <<files[j].status, files'[k].status>> \in
              {<<"pending", "processing">>, <<"processing", "completed">>,
               <<"processing", "error">>}]_vars

\* C8: at most one processAll call is in flight, at most one OCR call is
\* outstanding and at most one queue item is in status processing.
C8_OneAtATime ==
  /\ Cardinality({p \in PassIds : InFlight(p)}) <= 1
  /\ Cardinality({p \in PassIds : passes[p].pc = "ocr"}) <= 1
  /\ Cardinality({k \in 1..Len(files) : files[k].status = "processing"}) <= 1


\* The ids of the items that were completed in the snapshot of call c.
SkippedIds(c) ==
  {c.updatedFiles[k].id : k \in {j \in 1..Len(c.updatedFiles) :
                                   c.updatedFiles[j].status = "completed"}}

LoggedIds(c) == {c.log[k].id : k \in 1..Len(c.log)}

\* The steps of call p, its start included, leave every queue item whose id
\* is in ids as it is.
LeavesAlone(ids) ==
  \A k \in 1..Len(files) :
    files[k].id \in ids => (k <= Len(files') /\ files'[k] = files[k])

\* C5: a pass makes no encode or OCR call for an item that was completed when
\* it started, and none of its steps changes such an item; Start Scan on a
\* queue of completed items only changes neither the queue nor the result set.
C5_CompletedSkipped ==
  /\ [](\A c \in Calls :
          /\ LoggedIds(c) \cap SkippedIds(c) = {}
          /\ c.pc \in {"preprocess", "ocr"} => c.updatedFiles[c.i].id \notin SkippedIds(c))
  /\ [][\A p \in PassIds :
          /\ Steps(p) => LeavesAlone(SkippedIds(passes[p]))
          /\ processAll(p) =>
               /\ LeavesAlone(SkippedIds(After(p)))
               /\ (\A k \in 1..Len(files) : files[k].status = "completed")
                    => /\ files' = files
                       /\ extractedNumbers' = extractedNumbers
                       /\ isProcessing' = isProcessing
                       /\ passes' = passes]_vars

\* A pass over a queue holding a completed item and a pending one has
\* returned: it handled the pending item only, and the completed item is as it
\* was in the snapshot.
C5_Witness ==
  \E c \in Range(returned) :
    /\ Len(c.updatedFiles) = 2 /\ Len(files) = 2
    /\ c.updatedFiles[1].status = "completed"
    /\ c.updatedFiles[2].status = "pending"
    /\ files[1] = c.updatedFiles[1]
    /\ LoggedIds(c) = {c.updatedFiles[2].id}

\* The items of its snapshot that call c took over in status error.
Retried(c) == {k \in 1..Len(c.updatedFiles) : c.updatedFiles[k].status = "error"}

LastOf(seq) == seq[Len(seq)]

\* C6: a pass does not skip an item it finds in status error: it handles it
\* like a pending one; when the calls for an item succeed the item becomes
\* completed, and once the pass has returned the numbers of the item are in the
\* result set (as far as the item is still in the queue).
C6_ErrorRetried ==
  /\ [](\A c \in Calls : \A k \in Retried(c) :
          /\ k < c.i => c.updatedFiles[k].id \in LoggedIds(c)
          /\ k >= c.i => c.pc \in {"preprocess", "ocr"})
  /\ [](\A c \in Range(returned) : \A k \in Retried(c) : \A j \in 1..Len(c.log) :
          (c.log[j].id = c.updatedFiles[k].id /\ c.log[j].outcome = "completed"
             /\ LiveItems(c.log[j].id) # {})
            => Range(c.log[j].numbers) \subseteq ResultSet)
  /\ [][\A p \in PassIds :
          (Steps(p) /\ Len(After(p).log) > Len(passes[p].log)
             /\ LastOf(After(p).log).outcome = "completed")
            => \A k \in 1..Len(files') :
                 files'[k].id = LastOf(After(p).log).id => files'[k].status = "completed"]_vars

\* A pass has returned that found an item in status error, handled it with
\* success, left it completed and merged its numbers.
C6_Witness ==
  \E c \in Range(returned) : \E k \in Retried(c) : \E j \in 1..Len(c.log) :
    /\ c.log[j].id = c.updatedFiles[k].id
    /\ c.log[j].outcome = "completed"
    /\ c.log[j].numbers # <<>>
    /\ Range(c.log[j].numbers) \subseteq ResultSet
    /\ \E n \in LiveItems(c.log[j].id) : files[n].status = "completed"

\* C10: an upload appends its items, pending, to the end of the queue; the
\* steps of a pass in flight leave every queue item outside its snapshot (the
\* items uploaded since it started) in the queue and unchanged; the next pass
\* takes the whole queue as its snapshot, these items included, and handles
\* every item of it that is not completed.
C10_UploadsDuringPass ==
  /\ [][Len(files') > Len(files)
          => /\ SubSeq(files', 1, Len(files)) = files
             /\ \A k \in (Len(files) + 1)..Len(files') : files'[k].status = "pending"]_vars
  /\ [][\A p \in PassIds :
          /\ Steps(p)
               => /\ Len(files') = Len(files)
                  /\ LeavesAlone(IdsOf(files) \ IdsOf(passes[p].updatedFiles))
          /\ processAll(p) => After(p).updatedFiles = files]_vars
  /\ [](\A c \in Range(returned) :
          c.pc = "returned" => LoggedIds(c) = {c.updatedFiles[k].id : k \in Todo(c)})

\* While a pass is in flight the queue holds an item that is not in its
\* snapshot, and a later pass has completed that item.
C10_Witness ==
  \E p \in PassIds : \E k \in 1..Len(files) :
    /\ InFlight(p)
    /\ files[k].id \notin IdsOf(passes[p].updatedFiles)
    /\ files[k].status = "completed"
    /\ \E c \in Range(returned) : files[k].id \in LoggedIds(c)

(***************************************************************************)
(* Export history, counter and file                                        *)
(***************************************************************************)
\* The name of the k-th export: the decimal text of k, then ".csv".
Numbered(k) == toString(k) \o <<".","c","s","v">>

\* C12: the history holds at most 5 records, one for each of the exports made
\* so far up to 5, the most recent first (record k is the export numbered
\* downloadCount - k + 1); an export puts its record first, keeps the records
\* before it in order and, when there were 5, drops the last (oldest) one;
\* no other step changes the history.
C12_HistoryBound ==
  /\ [](/\ Len(history) <= 5
        /\ Len(history) = (IF downloadCount < 5 THEN downloadCount ELSE 5)
        /\ \A k \in 1..Len(history) :
             history[k].filename = Numbered(downloadCount - k + 1))
  /\ [][IF handleDownload
          THEN /\ history'[1].filename = saved'.filename
               /\ history'[1].data = saved'.content
               /\ Len(history') = (IF Len(history) < 5 THEN Len(history) + 1 ELSE 5)
               /\ \A k \in 2..Len(history') : history'[k] = history[k - 1]
          ELSE history' = history]_vars

\* The sixth export has been made: the history holds the exports 6, 5, 4, 3,
\* 2 in this order, and the first one is gone.
C12_Witness ==
  /\ downloadCount = 6
  /\ Len(history) = 5
  /\ history[1].filename = <<"6",".","c","s","v">>
  /\ history[5].filename = <<"2",".","c","s","v">>

\* C13: an export adds exactly one to the counter and no other step changes
\* it; the file an export saves is named by the new value of the counter, so
\* the exports are named 1.csv, 2.csv, ... in their order; the counter is
\* never smaller than the number of records in the history.
C13_ExportCounter ==
  /\ [][IF handleDownload
          THEN /\ downloadCount' = downloadCount + 1
               /\ saved'.filename = Numbered(downloadCount + 1)
          ELSE downloadCount' = downloadCount]_vars
  /\ [](downloadCount >= Len(history))
  /\ [](downloadCount = 0 => saved = NoFile)

\* More exports have been made than the history holds records, and the last
\* one was named by the counter.
C13_Witness ==
  /\ downloadCount > Len(history)
  /\ Len(history) = HistoryCapacity
  /\ saved.filename = Numbered(downloadCount)
  /\ saved.filename = <<"6",".","c","s","v">>

\* C14: the record of an export holds the content the export saved; every
\* step leaves every record as it is (an export moves the records one place
\* down); a re-download saves the data of the record under the record's name,
\* whatever the live result set is.
C14_RecordImmutable ==
  /\ [][handleDownload => history'[1].data = saved'.content]_vars
  /\ [][\A k \in 1..Len(history) :
          \/ k <= Len(history') /\ history'[k] = history[k]
          \/ k + 1 <= Len(history') /\ history'[k + 1] = history[k]
          \/ k = HistoryCapacity /\ handleDownload]_vars
  /\ [][\A k \in 1..Len(history) :
          redownload(k)
            => /\ saved'.content = history[k].data
               /\ saved'.filename = history[k].filename
               /\ history' = history]_vars

\* The result set has grown between two exports and has changed again since
\* the second; the file last saved is the first record's, with the content
\* of the first export.
C14_Witness ==
  /\ Len(history) = 2
  /\ history[1].data # history[2].data
  /\ history[1].count > history[2].count
  /\ generateCSV(Formatted(extractedNumbers)) # history[1].data
  /\ generateCSV(Formatted(extractedNumbers)) # history[2].data
  /\ saved = [filename |-> history[2].filename, content |-> history[2].data]

\* The lines of a text, each without the '\n' that ends it (a last line
\* that no '\n' ends counts when it is not empty).
RECURSIVE Lines(_, _)
Lines(s, line) ==
  IF s = <<>> THEN (IF line = <<>> THEN <<>> ELSE <<line>>)
  ELSE IF Head(s) = "\n" THEN <<line>> \o Lines(Tail(s), <<>>)
  ELSE Lines(Tail(s), Append(line, Head(s)))

HeaderRow == <<"N","u","m","b","e","r",",","P","h","o","n","e"," ",
               "N","u","m","b","e","r">>

\* The rows '<i>,<number_i>' of a list of numbers.
Rows(numbers) == [i \in 1..Len(numbers) |-> toString(i) \o <<",">> \o numbers[i]]

\* C15: the content an export saves is the header row 'Number,Phone Number'
\* followed by one row '<i>,<number_i>' for each entry of the result set, in
\* order, each line ended by '\n'; the count of the record is the number of
\* data rows; an export of a result set that is the one of the previous
\* export saves the same content; every record of the history has this
\* shape.
C15_CsvShape ==
  /\ [][handleDownload
          => /\ Lines(saved'.content, <<>>)
                  = <<HeaderRow>> \o Rows(Formatted(extractedNumbers))
             /\ saved'.content[Len(saved'.content)] = "\n"
             /\ history'[1].count = Len(Lines(saved'.content, <<>>)) - 1
             /\ (Len(history) > 0
                   /\ Lines(history[1].data, <<>>)
                        = <<HeaderRow>> \o Rows(Formatted(extractedNumbers)))
                  => saved'.content = history[1].data]_vars
  /\ [](\A k \in 1..Len(history) :
          LET rows == Lines(history[k].data, <<>>)
          IN /\ rows[1] = HeaderRow
             /\ Len(rows) = history[k].count + 1
             /\ \A i \in 1..history[k].count :
                  SubSeq(rows[i + 1], 1, Len(toString(i)) + 1) = toString(i) \o <<",">>)

\* A result set of two numbers has been exported twice in a row: the two
\* records have different names and the same content of two data rows.
C15_Witness ==
  /\ Len(history) >= 2
  /\ Len(extractedNumbers) = 2
  /\ history[1].count = 2 /\ history[2].count = 2
  /\ history[1].filename # history[2].filename
  /\ history[1].data = history[2].data
  /\ saved.content = history[1].data

\* C16: a reload leaves history and counter, in memory and in localStorage,
\* as they were before it; in every state the two stored texts read back as
\* the history and the counter in memory; so an export, the first one after a
\* reload included, is named by the stored counter plus one.
C16_SurvivesReload ==
  /\ [][Reload => /\ history' = history
                  /\ downloadCount' = downloadCount
                  /\ localStorage' = localStorage]_vars
  /\ [](/\ JSONParse(localStorage.omniextract_history) = history
        /\ parseInt(localStorage.omniextract_count) = downloadCount)
  /\ [][handleDownload
          => saved'.filename = Numbered(parseInt(localStorage.omniextract_count) + 1)]_vars

\* The page has been reloaded after the first export, and the export made in
\* the second session, of the numbers of another image, is named 2.csv and
\* stands before the first one in the history.
C16_Witness ==
  /\ session = 2
  /\ downloadCount = 2
  /\ Len(history) = 2
  /\ history[2].filename = <<"1",".","c","s","v">>
  /\ saved = [filename |-> <<"2",".","c","s","v">>, content |-> history[1].data]
  /\ Len(files) > 0 /\ files[1].name # Images[1]
  /\ localStorage.omniextract_count = <<"2">>

(***************************************************************************)
(* Number matcher                                                          *)
(***************************************************************************)
\* The texts performOCR has answered with, as the queue items hold them.
ScannedTexts == {files[k].rawText[1] : k \in {j \in 1..Len(files) : files[j].rawText # <<>>}}

DigitsOf(text) == SelectSeq(text, IsDigit)

\* Digits with single spaces or hyphens between them.
SinglySeparated(body) ==
  /\ body # <<>>
  /\ body[1] \in Digits /\ body[Len(body)] \in Digits
  /\ \A k \in 1..Len(body) : body[k] \in Digits \cup {" ", "-"}
  /\ \A k \in 1..(Len(body) - 1) : body[k] \in Digits \/ body[k + 1] \in Digits

\* The text is pre followed by a 10-digit number that begins with 6-9,
\* written bare or with single separators.
WrittenAfter(text, pre) ==
  /\ Len(text) > Len(pre)
  /\ SubSeq(text, 1, Len(pre)) = pre
  /\ LET body == SubSeq(text, Len(pre) + 1, Len(text))
     IN /\ SinglySeparated(body)
        /\ Len(DigitsOf(body)) = 10
        /\ body[1] \in {"6", "7", "8", "9"}

Canonical(text, pre) == <<"9","1">> \o DigitsOf(SubSeq(text, Len(pre) + 1, Len(text)))

\* C17: for a text that is a 10-digit number beginning with 6-9, written bare
\* or with single spaces or hyphens between its digits, alone or after "+91 "
\* or after "0", extractAndFormatNumbers returns exactly "91" followed by the
\* 10 digits, and the item's entry in the result set is that number; the
\* four texts "9656 50 1307", "+91 9656501307", "09656501307", "9656501307"
\* give "919656501307".
C17_CanonicalForm ==
  /\ \A text \in ScannedTexts : \A pre \in {<<>>, <<"+","9","1"," ">>, <<"0">>} :
       WrittenAfter(text, pre)
         => /\ extractAndFormatNumbers(text) = <<Canonical(text, pre)>>
            /\ Formatted(extractedNumbers) = <<Canonical(text, pre)>>
  /\ \A text \in {<<"9","6","5","6"," ","5","0"," ","1","3","0","7">>,
                   <<"+","9","1"," ","9","6","5","6","5","0","1","3","0","7">>,
                   <<"0","9","6","5","6","5","0","1","3","0","7">>,
                   <<"9","6","5","6","5","0","1","3","0","7">>} :
       extractAndFormatNumbers(text)
         = << <<"9","1","9","6","5","6","5","0","1","3","0","7">> >>

\* The text "+91 9656-50 1307" has been scanned: the item is completed and
\* the result set holds 919656501307 and nothing else.
C17_Witness ==
  /\ Len(files) = 1
  /\ files[1].status = "completed"
  /\ files[1].rawText = << <<"+","9","1"," ","9","6","5","6","-","5","0"," ",
                             "1","3","0","7">> >>
  /\ Formatted(extractedNumbers) = << <<"9","1","9","6","5","6","5","0","1","3","0","7">> >>

\* The runs of exactly 10 digits of a text that begin with 0-5, by their
\* first position.  A run stands between the ends of the text or characters
\* that are no digit, space or hyphen (a line break, a comma), so that digits
\* which a space or a hyphen ties to the run are no run of their own.
LowRuns(text) ==
  {a \in 1..(Len(text) - 9) :
     /\ \A k \in a..(a + 9) : text[k] \in Digits
     /\ a = 1 \/ text[a - 1] \notin Digits \cup {" ", "-"}
     /\ a + 9 = Len(text) \/ text[a + 10] \notin Digits \cup {" ", "-"}
     /\ text[a] \in {"0", "1", "2", "3", "4", "5"}}

\* The places of the captures that the scan of a text takes, from position p.
RECURSIVE CaptureSpans(_, _)
CaptureSpans(text, p) ==
  IF p > Len(text) THEN {}
  ELSE LET m == MatchAt(text, p)
       IN IF m.end = 0 THEN CaptureSpans(text, p + 1)
          ELSE {[first |-> m.start, last |-> m.end - 1]} \cup CaptureSpans(text, m.end)

\* C18: in a text that holds a run of 10 digits beginning with 0-5, no
\* capture takes a digit of that run, so no returned number is built from
\* its digits; and the third character of every returned number (its first
\* significant digit) is one of 6, 7, 8, 9.
C18_LeadingDigit ==
  \A text \in ScannedTexts :
    /\ \A a \in LowRuns(text) : \A span \in CaptureSpans(text, 1) :
         span.last < a \/ span.first > a + 9
    /\ \A k \in 1..Len(extractAndFormatNumbers(text)) :
         extractAndFormatNumbers(text)[k][3] \in {"6", "7", "8", "9"}

\* "91" followed by 10 digits.
TwelveDigits(num) ==
  /\ Len(num) = 12
  /\ num[1] = "9" /\ num[2] = "1"
  /\ \A k \in 1..12 : num[k] \in Digits

\* C19: every capture of the scan of a text strips to exactly 10 digits and
\* gives the result "91" + these digits, and every result comes from such a
\* capture; a text with fewer than 10 digits, or whose digits are broken by
\* two separators in a row so that no 10 of them are singly separated, gives
\* no result; every returned string, and every entry of the result set, is
\* "91" followed by 10 digits.
C19_LengthGuard ==
  /\ \A text \in ScannedTexts :
       LET captures == MatchAll(text, 1)
           numbers == extractAndFormatNumbers(text)
       IN /\ \A k \in 1..Len(captures) :
               /\ Len(DigitsOf(captures[k])) = 10
               /\ \E j \in 1..Len(numbers) : numbers[j] = <<"9","1">> \o DigitsOf(captures[k])
          /\ \A j \in 1..Len(numbers) :
               /\ TwelveDigits(numbers[j])
               /\ \E k \in 1..Len(captures) :
                    numbers[j] = <<"9","1">> \o DigitsOf(captures[k])
          /\ Len(DigitsOf(text)) < 10 => numbers = <<>>
          /\ text \in {<<"9","6","5","6"," "," ","5","0","1","3","0","7">>,
                        <<"9","6","5","6","-","-","5","0","1","3","0","7">>}
               => numbers = <<>>
  /\ \A k \in 1..Len(extractedNumbers) : TwelveDigits(extractedNumbers[k].formatted)

\* The text "9656  501307", with two spaces in a row, has been scanned: the
\* item is completed and nothing entered the result set.
C19_Witness ==
  /\ Len(files) = 1
  /\ files[1].status = "completed"
  /\ files[1].rawText = << <<"9","6","5","6"," "," ","5","0","1","3","0","7">> >>
  /\ extractedNumbers = <<>>

\* C20: for a text in which one valid number is written one, two or three
\* times, extractAndFormatNumbers returns a list without repeated elements
\* that holds "91" + the number exactly once, and the scan of the item into
\* an empty result set leaves exactly one entry, for that number.
C20_OneEntry ==
  \A text \in ScannedTexts : \A n \in ValidNumbers :
    text \in WrittenForms[n] \cup RepeatTexts[n]
      => LET numbers == extractAndFormatNumbers(text)
         IN /\ \A j, k \in 1..Len(numbers) : j # k => numbers[j] # numbers[k]
            /\ Cardinality({k \in 1..Len(numbers) : numbers[k] = <<"9","1">> \o n}) = 1
            /\ Formatted(extractedNumbers) = << <<"9","1">> \o n >>

(***************************************************************************)
(* OCR request                                                             *)
(***************************************************************************)
\* C21: the inlineData.data of every request outstanding at the OCR service
\* does not begin with a data-URI prefix "data:<mime>;base64,": it does not
\* begin with "data:" and holds no comma.
C21_NoDataUriPrefix ==
  \A p \in PassIds :
    passes[p].pc = "ocr"
      => /\ passes[p].inlineData # <<>>
         /\ SubSeq(passes[p].inlineData, 1, 5) # <<"d","a","t","a",":">>
         /\ \A k \in 1..Len(passes[p].inlineData) : passes[p].inlineData[k] # ","

(***************************************************************************)
(* Queue and Clear All                                                     *)
(***************************************************************************)
\* C22: the queue never holds more than 20 items.
C22_QueueCap == Len(files) <= 20

\* A call whose snapshot holds no item of the queue: the queue was cleared
\* after it started.
Stale(c) == IdsOf(c.updatedFiles) \cap IdsOf(files) = {}

\* C23: Clear All leaves the result set empty; every entry of the result set
\* comes from an item that is in the queue (so after a clear the result set
\* only receives numbers of items uploaded since, from passes started since);
\* no step of a call that was in flight when the queue was cleared changes the
\* result set; and the result set a call started after the clear deduplicates
\* against holds no entry of a cleared item.
C23_ClearedStaysCleared ==
  /\ [][clearAll => extractedNumbers' = <<>>]_vars
  /\ [](\A k \in 1..Len(extractedNumbers) : LiveItems(extractedNumbers[k].item) # {})
  /\ [][\A p \in PassIds :
          (Steps(p) /\ Stale(passes[p])) => extractedNumbers' = extractedNumbers]_vars
  /\ [](\A p \in PassIds :
          (InFlight(p) /\ ~Stale(passes[p]))
            => \A k \in 1..Len(passes[p].extractedNumbers) :
                 LiveItems(passes[p].extractedNumbers[k].item) # {})

\* C24: Clear All empties the queue and the result set, sets isProcessing to
\* false and changes neither the history, the counter, the stored values nor
\* the file last saved; while the result set is empty the export handler
\* cannot act, and no step makes a history record, changes the counter or
\* saves a file other than a record of the history.
C24_ClearKeepsExports ==
  /\ [][clearAll => /\ files' = <<>>
                    /\ extractedNumbers' = <<>>
                    /\ isProcessing' = FALSE
                    /\ history' = history
                    /\ downloadCount' = downloadCount
                    /\ localStorage' = localStorage
                    /\ saved' = saved]_vars
  /\ [][extractedNumbers = <<>>
          => /\ ~handleDownload
             /\ history' = history
             /\ downloadCount' = downloadCount
             /\ \/ saved' = saved
                \/ \E k \in 1..Len(history) :
                     saved' = [filename |-> history[k].filename,
                               content |-> history[k].data]]_vars

\* In the first session, after two exports, the queue and the result set
\* have been cleared while history and counter are as the exports left them.
C24_Witness ==
  /\ session = 1
  /\ files = <<>>
  /\ extractedNumbers = <<>>
  /\ ~isProcessing
  /\ Len(history) = 2
  /\ downloadCount = 2
  /\ saved.filename = history[1].filename

\* The number a file name '<digits>.csv' begins with.
IndexOf(filename) == DecimalValue(filename, 0)

\* C25: when the history is not empty, every file name in it is its index
\* followed by ".csv", the newest record's index is downloadCount, the
\* indices decrease by exactly one from each record to the next older one,
\* and the file names are pairwise distinct.
C25_HistoryNames ==
  history # <<>>
    => /\ \A k \in 1..Len(history) :
            history[k].filename = toString(IndexOf(history[k].filename)) \o <<".","c","s","v">>
       /\ IndexOf(history[1].filename) = downloadCount
       /\ \A k \in 1..(Len(history) - 1) :
            IndexOf(history[k].filename) = IndexOf(history[k + 1].filename) + 1
       /\ \A j, k \in 1..Len(history) :
            j # k => history[j].filename # history[k].filename

\* Three exports in the first session and one more after a reload: the
\* history is 4.csv, 3.csv, 2.csv, 1.csv.
C25_Witness ==
  /\ session = 2
  /\ downloadCount = 4
  /\ Len(history) = 4
  /\ history[1].filename = <<"4",".","c","s","v">>
  /\ history[4].filename = <<"1",".","c","s","v">>

(***************************************************************************)
(* Upload                                                                  *)
(***************************************************************************)
\* C11: one upload of n selected images keeps the queue as it was and appends
\* to its end exactly min(n, 20) items, the first 20 of the selection in
\* selection order, each pending with progress 0; nothing else of the
\* selection enters the queue and no error is recorded.
C11_UploadCap ==
  [][\A n \in 1..MaxSelected :
       handleFileUpload(CameraRoll(n))
         => /\ Len(files') = Len(files) + (IF n < 20 THEN n ELSE 20)
            /\ \A k \in 1..Len(files) : files'[k] = files[k]
            /\ \A k \in 1..(Len(files') - Len(files)) :
                 /\ files'[Len(files) + k].name = CameraRoll(n)[k]
                 /\ files'[Len(files) + k].status = "pending"
                 /\ files'[Len(files) + k].progress = 0
                 /\ files'[Len(files) + k].error = <<>>
            /\ \A j, k \in 1..Len(files') : j # k => files'[j].id # files'[k].id]_vars

\* A selection of more than 20 images has been uploaded to a queue that
\* already held items: the queue grew by the first 20 of them.
C11_Witness ==
  /\ clicks = 2
  /\ Len(files) = 3 + 20
  /\ files[3].name = CameraRoll(3)[3]
  /\ \A k \in 1..20 : files[3 + k].name = CameraRoll(MaxSelected)[k]

====
